---- MODULE Spec2Model ----
(***************************************************************************)
(* Discover Sarawak backend (src/backend/server.py): the rate-limited      *)
(* itinerary generator, the session authentication flow and favorites,     *)
(* modelled as request handlers stepping between their store / upstream    *)
(* await points over the MongoDB collections itineraries, users,           *)
(* user_sessions and favorites.                                            *)
(*                                                                         *)
(* Time is a discrete UTC clock `now` counted in ticks, DayLen ticks to a  *)
(* calendar day.  A collection is a bag of documents (the _id that Mongo   *)
(* adds is left out, so two documents may be equal in every field).        *)
(* find_one / delete_one on a filter that matches several documents pick   *)
(* any one of them.  Store operations of generate_itinerary are taken to   *)
(* succeed; the upstream AI call and the identity broker may fail.         *)
(***************************************************************************)
EXTENDS Bags, FiniteSets, Integers, Sequences, TLC

VARIABLES
  now,          \* datetime.now(timezone.utc), in ticks
  itineraries,  \* db.itineraries
  gen,          \* generate_itinerary requests, per handler slot
  generated,    \* history: one entry (identity, UTC day) per successful generation
  peak,         \* history: per identity, the largest number of its generate
                \* requests that were between quota check and insert at the
                \* same moment of the current UTC day
  rejected,     \* history: the identities of which a generate request that
                \* computed today's midnight was answered 429
  limitResp,    \* the response of check_itinerary_limit while it is the latest
                \* thing that happened, NoLimitResp otherwise
  genResp,      \* the response of the generate request whose AI call ended
                \* last, while it is the latest thing that happened
  users,          \* db.users
  user_sessions,  \* db.user_sessions
  auth,           \* auth requests (create_session, get_me, logout) in flight,
                  \* per client slot
  authResp,       \* the response of the auth request that completed last while
                  \* it is the latest thing that happened, NoAuthResp otherwise
  exchanged,      \* the clients whose session_id the broker has answered with
                  \* 200 (a client exchanges its session_id once)
  favorites,    \* db.favorites
  fav,          \* add_favorite requests, per handler slot
  favIds,       \* number of uuid4 values drawn for Favorite.id
  favResp,      \* the response of the favorites request that completed last
                \* while it is the latest thing that happened
  request,      \* the session_token cookie and the authorization value that
                \* a caller presents with its get_me and logout requests
  attractions,  \* db.attractions (written by the import scripts only)
  events,       \* db.events (written by the import scripts only)
  listResp      \* the response of the latest get_attractions, get_events or
                \* health_check

genVars == <<itineraries, gen, generated, peak, rejected, limitResp, genResp>>
authVars == <<users, user_sessions, auth, authResp, exchanged, request>>
favVars == <<favorites, fav, favIds, favResp>>
catalogVars == <<attractions, events, listResp>>
vars == <<now, itineraries, gen, generated, peak, rejected, limitResp,
          genResp,
          users, user_sessions, auth, authResp, exchanged,
          favorites, fav, favIds, favResp, request,
          attractions, events, listResp>>

----------------------------------------------------------------------------
(* Bounds of the model *)

DayLen == 2          \* clock ticks per UTC calendar day
MaxTime == 2         \* the clock stops at this tick
MaxItineraries == 5  \* no new request is accepted beyond this many documents
MaxInputDocs == 1    \* the same, in the specification that varies the request body

(* Program constants *)

DAILY_LIMIT == 5

None == "None"     \* Python's None / an absent key

GenReqs == {"g1", "g2"}          \* concurrently served generate requests
UserIdInputs == {None, "u1"}     \* ItineraryRequest.user_id
Identities == {"guest", "u1"}
ValidDurations == {1, 3, 5, 7}
ValidBudgets == {"low", "medium", "high"}
DurationInputs == {3, 4}
BudgetInputs == {"low", "luxury"}
AiTexts == {"plan"}              \* raw text returned by the AI service

----------------------------------------------------------------------------
(* Clock and store helpers *)

Max(a, b) == IF a >= b THEN a ELSE b

\* datetime.replace(hour=0, minute=0, second=0, microsecond=0)
DayStart(t) == t - (t % DayLen)

DayOf(t) == t \div DayLen

\* collection.count_documents(filter): matching is the set of distinct
\* documents of coll the filter matches
CountDocuments(coll, matching) ==
  BagCardinality([d \in matching |-> coll[d]])

\* collection.insert_one(doc)
InsertOne(coll, doc) == coll (+) SetToBag({doc})

----------------------------------------------------------------------------
(* Itinerary generator *)

\* user_identifier = request.user_id if request.user_id else "guest"
UserIdentifier(user_id) == IF user_id # None THEN user_id ELSE "guest"

TodayCountRolling(coll, user_identifier, today_start) ==
  CountDocuments(coll,
    {d \in BagToSet(coll) :
       d.user_id = user_identifier /\ d.created_at >= now})

TodayCountAnyUser(coll, user_identifier, today_start) ==
  CountDocuments(coll,
    {d \in BagToSet(coll) : d.created_at >= today_start})

TodayCountStrict(coll, user_identifier, today_start) ==
  CountDocuments(coll,
    {d \in BagToSet(coll) :
       d.user_id = user_identifier /\ d.created_at > today_start})

TodayCountAllTime(coll, user_identifier, today_start) ==
  CountDocuments(coll, {d \in BagToSet(coll) : d.user_id = user_identifier})

\* count_documents({'user_id': ..., 'created_at': {'$gte': today_start}})
TodayCount(coll, user_identifier, today_start) ==
  CountDocuments(coll,
    {d \in BagToSet(coll) :
       d.user_id = user_identifier /\ d.created_at >= today_start})

QuotaReachedAbove(today_count) == today_count > DAILY_LIMIT

QuotaReachedAtFour(today_count) == today_count >= DAILY_LIMIT - 1

\* if today_count >= 5: raise HTTPException(status_code=429, ...)
QuotaReached(today_count) == today_count >= DAILY_LIMIT

\* no response of check_itinerary_limit is the latest event
NoLimitResp ==
  [user_id |-> None, keys |-> {}, daily_limit |-> 0, used_today |-> 0,
   remaining_today |-> 0, reset_time |-> 0, error |-> FALSE]

\* the ItineraryResponse fields of the model, none set
NoItinerary ==
  [user_id |-> None, itinerary |-> None, duration |-> 0, budget |-> None,
   created_at |-> 0]

\* no response of generate_itinerary is the latest event
NoGenResp == [status |-> 0, body |-> NoItinerary]

\* error_keys: what an error response carries (HTTPException detail,
\* headers); retry_after: the value of a retry-after, 0 when there is none
IdleGen ==
  [pc |-> "idle", user_identifier |-> None, duration |-> 0, budget |-> None,
   today_start |-> 0, today_count |-> 0, ai |-> None, status |-> 0,
   error_keys |-> {}, retry_after |-> 0]

\* requests between their first line and their response
InFlight == {q \in GenReqs : gen[q].pc \in {"count", "ai"}}

\* the requests of an identity that passed the quota check (line 493) and
\* have not reached the insert (line 586)
InFlightFor(g, user_identifier) ==
  Cardinality({q \in GenReqs : g[q].pc = "ai"
                                /\ g[q].user_identifier = user_identifier})

\* lines 483-487: the request body is accepted as typed (pydantic checks the
\* types only), the identity and today's 00:00 UTC are computed.
GenerateBegin(r, user_id, duration, budget, maxDocs) ==
  /\ gen[r].pc \in {"idle", "done"}
  /\ BagCardinality(itineraries) + Cardinality(InFlight) <= maxDocs
  /\ gen' = [gen EXCEPT ![r] =
       [IdleGen EXCEPT
          !.pc = "count",
          !.user_identifier = UserIdentifier(user_id),
          !.duration = duration,
          !.budget = budget,
          !.today_start = DayStart(now)]]
  /\ limitResp' = NoLimitResp
  /\ genResp' = NoGenResp
  /\ UNCHANGED <<now, itineraries, generated, peak, rejected>>
  /\ UNCHANGED <<authVars, favVars, catalogVars>>

\* lines 488-497: count today's itineraries of the identity; 429 at the limit.
GenerateCountStep(r) ==
  /\ gen[r].pc = "count"
  /\ LET today_count ==
           TodayCount(itineraries, gen[r].user_identifier, gen[r].today_start)
     IN  gen' = [gen EXCEPT ![r] =
           IF QuotaReached(today_count)
           THEN [IdleGen EXCEPT !.pc = "done", !.status = 429,
                                !.error_keys = {"detail"}]
           ELSE [@ EXCEPT !.pc = "ai", !.today_start = 0,
                          !.today_count = today_count]]
  /\ limitResp' = NoLimitResp
  /\ genResp' = NoGenResp
  /\ UNCHANGED <<now, itineraries, generated>>
  /\ UNCHANGED <<authVars, favVars, catalogVars>>

\* the step with the histories peak and rejected left alone
GenerateCount(r) ==
  /\ GenerateCountStep(r)
  /\ UNCHANGED <<peak, rejected>>

\* the step with the histories kept: the requests now past the check, and
\* the identity of a request that computed today's midnight and got 429
GenerateCountObserved(r) ==
  /\ GenerateCountStep(r)
  /\ peak' = [u \in Identities |-> Max(peak[u], InFlightFor(gen', u))]
  /\ rejected' = IF gen'[r].status = 429 /\ gen[r].today_start = DayStart(now)
                   THEN rejected \cup {gen[r].user_identifier}
                   ELSE rejected

SavedTwice(coll, doc, ai_ok) ==
  IF ai_ok THEN InsertOne(InsertOne(coll, doc), doc) ELSE coll

SavedAlways(coll, doc, ai_ok) == InsertOne(coll, doc)

SavedReplacing(coll, doc, ai_ok) ==
  IF ai_ok
  THEN InsertOne([d \in {e \in DOMAIN coll : e.user_id # doc.user_id} |-> coll[d]],
                 doc)
  ELSE coll

\* lines 572-598: the document is inserted only after chat.send_message
\* returned; an exception skips the insert.
Saved(coll, doc, ai_ok) == IF ai_ok THEN InsertOne(coll, doc) ELSE coll

\* lines 499-598: context reads, the AI call, then the insert of the result.
GenerateComplete(r, ai_ok, text) ==
  /\ gen[r].pc = "ai"
  /\ LET itinerary_obj ==
           [user_id |-> gen[r].user_identifier, itinerary |-> text,
            duration |-> gen[r].duration, budget |-> gen[r].budget,
            created_at |-> now]
     IN  /\ itineraries' = Saved(itineraries, itinerary_obj, ai_ok)
         /\ gen' = [gen EXCEPT ![r] =
              [IdleGen EXCEPT !.pc = "done", !.ai = IF ai_ok THEN "ok" ELSE "failed",
                              !.status = IF ai_ok THEN 200 ELSE 500,
                              !.error_keys = IF ai_ok THEN {} ELSE {"detail"}]]
         /\ generated' =
              IF ai_ok
              THEN InsertOne(generated,
                     [user |-> gen[r].user_identifier, day |-> DayOf(now)])
              ELSE generated
         /\ genResp' = IF ai_ok THEN [status |-> 200, body |-> itinerary_obj]
                                 ELSE [status |-> 500, body |-> NoItinerary]
  /\ limitResp' = NoLimitResp
  /\ UNCHANGED <<now, peak, rejected>>
  /\ UNCHANGED <<authVars, favVars, catalogVars>>

RemainingRaw(today_count) == DAILY_LIMIT - today_count - 1

RemainingUnclamped(today_count) == DAILY_LIMIT - today_count

\* remaining = max(0, 5 - today_count)
Remaining(today_count) == Max(0, DAILY_LIMIT - today_count)

CheckLimitCounted(user_id, count_ok) ==
  /\ BagCardinality(itineraries) <= MaxItineraries
  /\ itineraries' = InsertOne(itineraries,
       [user_id |-> user_id, itinerary |-> "limit check", duration |-> 0,
        budget |-> None, created_at |-> now])
  /\ limitResp' =
       [NoLimitResp EXCEPT !.user_id = user_id, !.error = ~count_ok,
          !.keys = {"daily_limit", "used_today", "remaining_today"},
          !.daily_limit = DAILY_LIMIT, !.remaining_today = DAILY_LIMIT]
  /\ genResp' = NoGenResp
  /\ UNCHANGED <<now, gen, generated, peak, rejected>>
  /\ UNCHANGED <<authVars, favVars, catalogVars>>

\* lines 600-625; count_ok = FALSE is a count_documents that raises.  keys
\* are the keys of the returned object (the fallback has no reset_time).
check_itinerary_limit(user_id, count_ok) ==
  /\ LET today_start == DayStart(now)
         today_count == TodayCount(itineraries, user_id, today_start)
     IN  limitResp' =
           IF count_ok
           THEN [user_id |-> user_id,
                 keys |-> {"daily_limit", "used_today", "remaining_today",
                           "reset_time"},
                 daily_limit |-> DAILY_LIMIT, used_today |-> today_count,
                 remaining_today |-> Remaining(today_count),
                 reset_time |-> today_start + DayLen, error |-> FALSE]
           ELSE [user_id |-> user_id,
                 keys |-> {"daily_limit", "used_today", "remaining_today",
                           "error"},
                 daily_limit |-> DAILY_LIMIT, used_today |-> 0,
                 remaining_today |-> DAILY_LIMIT,
                 reset_time |-> 0, error |-> TRUE]
  /\ genResp' = NoGenResp
  /\ UNCHANGED <<now, itineraries, gen, generated, peak, rejected>>
  /\ UNCHANGED <<authVars, favVars, catalogVars>>


----------------------------------------------------------------------------
(* Session authentication *)

SESSION_DAYS == 7  \* timedelta(days=7)
Slack == 1         \* ticks the clock runs on after one session lifetime

SessionTTL == SESSION_DAYS * DayLen
AuthHorizon == SessionTTL + Slack

Clients == {"c1", "c2"}            \* concurrently served auth requests
Emails == {"a@x.com", "b@x.com"}
Tokens == {"tok1", "tok2"}        \* session_token values the broker issues
Profiles == {[name |-> "A", picture |-> "a.png"], [name |-> "B", picture |-> None]}

\* auth_response.json() of a 200 answer
UserData ==
  {[email |-> e, name |-> p.name, picture |-> p.picture, session_token |-> t] :
     e \in Emails, p \in Profiles, t \in Tokens}

NoUserData ==
  [email |-> None, name |-> None, picture |-> None, session_token |-> None]

\* clock units between two consecutive datetime.now(timezone.utc) calls
ClockElapsed == {0, 1}

\* f"user_{uuid.uuid4().hex[:12]}": values that never repeat
UserIdPool == <<"user_01", "user_02", "user_03", "user_04">>

\* Cookie(None) inputs, and authorization inputs as the chunks of the string
CookieInputs == {None} \cup Tokens
AuthorizationInputs ==
  {<<>>} \cup {<<"Bearer ", t>> : t \in Tokens} \cup {<<"Basic ", "tok1">>}

\* authorization values for token extraction: also a bare prefix and a
\* value in which the prefix occurs twice
BearerInputs ==
  AuthorizationInputs \cup {<<"Bearer ">>, <<"Bearer ", "Bearer ", "tok1">>}

\* what a caller presents: a cookie (or none) and an authorization value
TokenRequests ==
  {[session_token |-> ck, authorization |-> az] :
     ck \in CookieInputs, az \in BearerInputs}

\* broker answers used where the token extraction is examined
TokenData == {d \in UserData : d.email = "a@x.com" /\ d.name = "A"}

\* a 200 answer of the broker whose JSON has no session_token key
NoTokenData ==
  {[email |-> "a@x.com", name |-> "A", picture |-> "a.png",
    session_token |-> None]}

\* a request without cookie and without authorization value
NoRequest == [session_token |-> None, authorization |-> <<>>]

\* the string made of the chunks
RECURSIVE Joined(_)
Joined(chunks) ==
  IF Len(chunks) = 0 THEN "" ELSE Head(chunks) \o Joined(Tail(chunks))

\* lines 138-149
get_session_token_from_request(session_token, authorization) ==
  IF session_token # None /\ session_token # ""
  THEN session_token
  ELSE IF Len(authorization) > 0 /\ Head(authorization) = "Bearer "
       THEN Joined(SelectSeq(authorization, LAMBDA w : w # "Bearer "))
       ELSE None

\* if not token
NoToken(token) == token = None \/ token = ""

SessionsOfAny(coll, token) == BagToSet(coll)

\* documents of user_sessions with {"session_token": token}
SessionsOf(coll, token) == {d \in BagToSet(coll) : d.session_token = token}

UsersByWrongKey(coll, email) == {d \in BagToSet(coll) : d.user_id = email}

\* documents of users with {"email": email} / {"user_id": user_id}
UsersByEmail(coll, email) == {d \in BagToSet(coll) : d.email = email}
UsersById(coll, user_id) == {d \in BagToSet(coll) : d.user_id = user_id}

DeleteMany(coll, matching) ==
  {[d \in (DOMAIN coll) \ matching |-> coll[d]]}

\* collection.delete_one(filter): the collections it can leave behind
DeleteOne(coll, matching) ==
  IF matching = {} THEN {coll} ELSE {coll (-) SetToBag({d}) : d \in matching}

SessionExpiredOrNow(expires_at, t) == expires_at <= t

\* if expires_at < datetime.now(timezone.utc)
SessionExpired(expires_at, t) == expires_at < t

IdleAuth ==
  [pc |-> "idle", token |-> None, user_data |-> NoUserData, user_id |-> None,
   expires_at |-> 0]

NoBody == [kind |-> "none"]

NoAuthResp ==
  [op |-> None, token |-> None, cause |-> None, status |-> 0, body |-> NoBody]

\* a response: cause names the branch of the handler that produced it
Resp(op, token, cause, status, body) ==
  [op |-> op, token |-> token, cause |-> cause, status |-> status, body |-> body]

Unauthorized == [kind |-> "error", detail |-> "Not authenticated"]

\* user ids held by a user document or by a create_session in flight
UsedIds ==
  {d.user_id : d \in BagToSet(users)} \cup {auth[c].user_id : c \in Clients}

\* line 215: a fresh id
NewUserId ==
  UserIdPool[CHOOSE i \in 1..Len(UserIdPool) :
               /\ UserIdPool[i] \notin UsedIds
               /\ \A j \in 1..(i - 1) : UserIdPool[j] \in UsedIds]

CreateSessionFailureAsRaised(raised_status) == raised_status

\* lines 266-268: `except Exception` catches the HTTPException(401) of line
\* 210 like any other exception and raises HTTPException(500)
CreateSessionFailure(raised_status) == 500

\* lines 200-212: the exchange with the identity broker
CreateSessionCall(c, broker_status, data) ==
  /\ auth[c].pc = "idle"
  /\ IF broker_status # 200
     THEN /\ authResp' = Resp("create_session", None, "broker_non200",
                              CreateSessionFailure(401),
                              [kind |-> "error",
                               detail |-> "Failed to create session"])
          /\ UNCHANGED <<auth, exchanged>>
     ELSE /\ c \notin exchanged
          /\ now <= Slack
          /\ exchanged' = exchanged \cup {c}
          /\ auth' = [auth EXCEPT ![c] =
               [IdleAuth EXCEPT !.pc = "cs_find", !.user_data = data]]
          /\ authResp' = NoAuthResp
  /\ UNCHANGED <<now, users, user_sessions>>
  /\ UNCHANGED <<genVars, favVars, request, catalogVars>>

\* lines 214-224: a fresh user_id, then the lookup by email
CreateSessionFindUser(c) ==
  /\ auth[c].pc = "cs_find"
  /\ LET existing == UsersByEmail(users, auth[c].user_data.email)
     IN  IF existing = {}
         THEN auth' = [auth EXCEPT ![c].pc = "cs_user", ![c].user_id = NewUserId]
         ELSE \E existing_user \in existing :
                auth' = [auth EXCEPT ![c].pc = "cs_session",
                                     ![c].user_id = existing_user.user_id]
  /\ authResp' = NoAuthResp
  /\ UNCHANGED <<now, users, user_sessions, exchanged>>
  /\ UNCHANGED <<genVars, favVars, request, catalogVars>>

\* lines 225-234
CreateSessionInsertUser(c) ==
  /\ auth[c].pc = "cs_user"
  /\ users' = InsertOne(users,
       [user_id |-> auth[c].user_id,
        email |-> auth[c].user_data.email,
        name |-> auth[c].user_data.name,
        picture |-> auth[c].user_data.picture,
        created_at |-> now])
  /\ auth' = [auth EXCEPT ![c].pc = "cs_session"]
  /\ authResp' = NoAuthResp
  /\ UNCHANGED <<now, user_sessions, exchanged>>
  /\ UNCHANGED <<genVars, favVars, request, catalogVars>>

\* lines 236-264.  expires_at (line 241) and created_at (line 242) are two
\* readings of the clock: elapsed is what the clock advanced between them.
CreateSessionInsertSession(c, elapsed) ==
  /\ auth[c].pc = "cs_session"
  /\ auth[c].user_data.session_token # None
  /\ user_sessions' = InsertOne(user_sessions,
       [user_id |-> auth[c].user_id,
        session_token |-> auth[c].user_data.session_token,
        expires_at |-> now + SessionTTL,
        created_at |-> now + elapsed])
  /\ auth' = [auth EXCEPT ![c] = IdleAuth]
  /\ authResp' = Resp("create_session", auth[c].user_data.session_token,
                      "created", 200,
       [kind |-> "session", id |-> auth[c].user_id,
        email |-> auth[c].user_data.email,
        name |-> auth[c].user_data.name,
        picture |-> auth[c].user_data.picture,
        session_token |-> auth[c].user_data.session_token])
  /\ UNCHANGED <<now, users, exchanged>>
  /\ UNCHANGED <<genVars, favVars, request, catalogVars>>

\* lines 218-268: a store operation of the call raises (store_ok = FALSE),
\* or user_data["session_token"] at line 237 raises KeyError; either way the
\* except branch answers 500 and nothing written before is taken back
CreateSessionRaises(c, store_ok) ==
  /\ auth[c].pc \in {"cs_find", "cs_user", "cs_session"}
  /\ \/ ~store_ok
     \/ auth[c].pc = "cs_session" /\ auth[c].user_data.session_token = None
  /\ auth' = [auth EXCEPT ![c] = IdleAuth]
  /\ authResp' = Resp("create_session", None,
                      IF store_ok THEN "no_session_token" ELSE "store_raised",
                      CreateSessionFailure(500),
                      [kind |-> "error", detail |-> "Failed to create session"])
  /\ UNCHANGED <<now, users, user_sessions, exchanged>>
  /\ UNCHANGED <<genVars, favVars, request, catalogVars>>

\* lines 270-279 and 151-178: get_me -> get_current_user up to the expiry check
GetMeCall(c, session_token, authorization) ==
  /\ auth[c].pc = "idle"
  /\ LET token == get_session_token_from_request(session_token, authorization)
         found == SessionsOf(user_sessions, token)
     IN  IF NoToken(token) \/ found = {}
         THEN /\ authResp' = Resp("get_me", token,
                                   IF NoToken(token) THEN "no_token" ELSE "no_session",
                                   401, Unauthorized)
              /\ UNCHANGED auth
         ELSE \E session \in found :
                /\ auth' = [auth EXCEPT ![c] =
                     IF SessionExpired(session.expires_at, now)
                     THEN [IdleAuth EXCEPT !.pc = "rs_evict", !.token = token,
                                           !.expires_at = session.expires_at]
                     ELSE [IdleAuth EXCEPT !.pc = "rs_user", !.token = token,
                                           !.expires_at = session.expires_at,
                                           !.user_id = session.user_id]]
                /\ authResp' = NoAuthResp
  /\ UNCHANGED <<now, users, user_sessions, exchanged>>
  /\ UNCHANGED <<genVars, favVars, request, catalogVars>>

GetMeEvictTelling(c) ==
  /\ auth[c].pc = "rs_evict"
  /\ user_sessions' \in
       DeleteOne(user_sessions, SessionsOf(user_sessions, auth[c].token))
  /\ auth' = [auth EXCEPT ![c] = IdleAuth]
  /\ authResp' = Resp("get_me", auth[c].token, "expired", 401,
                      [kind |-> "error", detail |-> "Session expired"])
  /\ UNCHANGED <<now, users, exchanged>>
  /\ UNCHANGED <<genVars, favVars, request, catalogVars>>

\* lines 176-178 and 278-279: lazy eviction
GetMeEvict(c) ==
  /\ auth[c].pc = "rs_evict"
  /\ user_sessions' \in
       DeleteOne(user_sessions, SessionsOf(user_sessions, auth[c].token))
  /\ auth' = [auth EXCEPT ![c] = IdleAuth]
  /\ authResp' = Resp("get_me", auth[c].token, "expired", 401, Unauthorized)
  /\ UNCHANGED <<now, users, exchanged>>
  /\ UNCHANGED <<genVars, favVars, request, catalogVars>>

GetMeUserSliding(c) ==
  /\ auth[c].pc = "rs_user"
  /\ LET docs == UsersById(users, auth[c].user_id)
         found == SessionsOf(user_sessions, auth[c].token)
     IN  IF docs = {}
         THEN /\ authResp' = Resp("get_me", auth[c].token, "no_user", 401,
                                   Unauthorized)
              /\ UNCHANGED user_sessions
         ELSE /\ \E user_doc \in docs :
                   authResp' = Resp("get_me", auth[c].token, "user", 200,
                     [kind |-> "user", user_id |-> user_doc.user_id,
                      email |-> user_doc.email, name |-> user_doc.name,
                      picture |-> user_doc.picture,
                      created_at |-> user_doc.created_at])
              /\ IF found = {} THEN UNCHANGED user_sessions
                 ELSE \E d \in found :
                        user_sessions' =
                          (user_sessions (-) SetToBag({d}))
                            (+) SetToBag({[d EXCEPT !.expires_at =
                                                      now + SessionTTL]})
  /\ auth' = [auth EXCEPT ![c] = IdleAuth]
  /\ UNCHANGED <<now, users, exchanged>>
  /\ UNCHANGED <<genVars, favVars, request, catalogVars>>

\* lines 180-189 and 278-281
GetMeUser(c) ==
  /\ auth[c].pc = "rs_user"
  /\ LET docs == UsersById(users, auth[c].user_id)
     IN  IF docs = {}
         THEN authResp' = Resp("get_me", auth[c].token, "no_user", 401, Unauthorized)
         ELSE \E user_doc \in docs :
                authResp' = Resp("get_me", auth[c].token, "user", 200,
                  [kind |-> "user", user_id |-> user_doc.user_id,
                   email |-> user_doc.email, name |-> user_doc.name,
                   picture |-> user_doc.picture,
                   created_at |-> user_doc.created_at])
  /\ auth' = [auth EXCEPT ![c] = IdleAuth]
  /\ UNCHANGED <<now, users, user_sessions, exchanged>>
  /\ UNCHANGED <<genVars, favVars, request, catalogVars>>

\* lines 283-299
logout(c, session_token, authorization) ==
  /\ auth[c].pc = "idle"
  /\ LET token == get_session_token_from_request(session_token, authorization)
     IN  /\ IF NoToken(token)
            THEN UNCHANGED user_sessions
            ELSE user_sessions' \in
                   DeleteOne(user_sessions, SessionsOf(user_sessions, token))
         /\ authResp' = Resp("logout", token, "logged_out", 200,
                             [kind |-> "message",
                              detail |-> "Logged out successfully"])
  /\ UNCHANGED <<now, users, auth, exchanged>>
  /\ UNCHANGED <<genVars, favVars, request, catalogVars>>

----------------------------------------------------------------------------
(* Favorites *)

MaxFavIds == 3     \* Favorite ids drawn in a run

FavReqs == {"f1", "f2"}            \* concurrently served add_favorite requests
FavUsers == {"u1", "u2"}           \* FavoriteCreate.user_id
Attractions == {"a1", "a2"}        \* FavoriteCreate.attraction_id
Micros == {0, 1}                   \* datetime.utcnow(): the part of the reading
                                   \* below one millisecond (0 or some)

\* Field(default_factory=datetime.utcnow): the clock tick and the part of
\* the reading below the millisecond
UtcNow(t, micros) == [t |-> t, micros |-> micros]

\* a datetime as the store keeps it: BSON datetimes count milliseconds, the
\* driver drops what is below the millisecond when it encodes the document
BsonDatetime(dt) == [dt EXCEPT !.micros = 0]

\* favorite_obj.dict(by_alias=True) as it is kept in db.favorites
FavoriteDoc(favorite_obj) ==
  [favorite_obj EXCEPT !.created_at = BsonDatetime(favorite_obj.created_at)]

\* documents of favorites with {'user_id': ..., 'attraction_id': ...}
FavoritesOf(coll, user_id, attraction_id) ==
  {d \in BagToSet(coll) : d.user_id = user_id /\ d.attraction_id = attraction_id}

IdleFav == [pc |-> "idle", user_id |-> None, attraction_id |-> None]

NoFavorite ==
  [id |-> 0, user_id |-> None, attraction_id |-> None, created_at |-> UtcNow(0, 0)]

NoFavResp ==
  [op |-> None, user_id |-> None, attraction_id |-> None, cause |-> None,
   status |-> 0, body |-> NoFavorite, listed |-> {}]

FavResponse(op, user_id, attraction_id, cause, status, body) ==
  [op |-> op, user_id |-> user_id, attraction_id |-> attraction_id,
   cause |-> cause, status |-> status, body |-> body, listed |-> {}]

\* lines 411-420: the lookup; an existing document is returned as
\* Favorite(**existing)
AddFavoriteCall(r, user_id, attraction_id) ==
  /\ fav[r].pc = "idle"
  /\ LET found == FavoritesOf(favorites, user_id, attraction_id)
     IN  IF found = {}
         THEN /\ fav' = [fav EXCEPT ![r] =
                   [pc |-> "insert", user_id |-> user_id,
                    attraction_id |-> attraction_id]]
              /\ favResp' = NoFavResp
         ELSE /\ \E existing \in found :
                   favResp' = FavResponse("add", user_id, attraction_id,
                                          "existing", 200, existing)
              /\ UNCHANGED fav
  /\ UNCHANGED <<now, favorites, favIds>>
  /\ UNCHANGED <<genVars, authVars, catalogVars>>

\* lines 422-428: a new Favorite (fresh id, created_at = utcnow()) is
\* inserted and the object itself is returned
AddFavoriteInsert(r, micros) ==
  /\ fav[r].pc = "insert"
  /\ favIds < MaxFavIds
  /\ LET favorite_obj ==
           [id |-> favIds + 1, user_id |-> fav[r].user_id,
            attraction_id |-> fav[r].attraction_id,
            created_at |-> UtcNow(now, micros)]
     IN  /\ favorites' = InsertOne(favorites, FavoriteDoc(favorite_obj))
         /\ favResp' = FavResponse("add", fav[r].user_id, fav[r].attraction_id,
                                   "created", 200, favorite_obj)
  /\ favIds' = favIds + 1
  /\ fav' = [fav EXCEPT ![r] = IdleFav]
  /\ UNCHANGED now
  /\ UNCHANGED <<genVars, authVars, catalogVars>>

\* lines 439-450
remove_favorite(user_id, attraction_id) ==
  /\ LET found == FavoritesOf(favorites, user_id, attraction_id)
     IN  /\ favorites' \in DeleteOne(favorites, found)
         /\ favResp' =
              IF found = {}
              THEN FavResponse("remove", user_id, attraction_id, "not_found",
                               404, NoFavorite)
              ELSE FavResponse("remove", user_id, attraction_id, "removed",
                               200, NoFavorite)
  /\ UNCHANGED <<now, fav, favIds>>
  /\ UNCHANGED <<genVars, authVars, catalogVars>>

\* lines 430-437: the attraction documents whose _id is the attraction_id of
\* one of the user's favorites; listed holds the returned records (the
\* cursor delivers each document once, in no stated order)
get_user_favorites(user_id) ==
  /\ LET attraction_ids == {d.attraction_id :
                              d \in {f \in BagToSet(favorites) :
                                       f.user_id = user_id}}
     IN  favResp' = [FavResponse("list", user_id, None, "listed", 200,
                                 NoFavorite)
                       EXCEPT !.listed = {a \in attractions :
                                            a.id \in attraction_ids}]
  /\ UNCHANGED <<now, favorites, fav, favIds>>
  /\ UNCHANGED <<genVars, authVars, catalogVars>>

----------------------------------------------------------------------------
(* Catalog: attractions, events, health check *)

MaxLimit == 2      \* largest limit parameter of a query

NoDate == -1       \* Event.start_date is None
NoBound == -1      \* start_date / end_date parameter not given

\* documents the import scripts may have written (_id unique)
AttractionPool ==
  {[id |-> "a1", categories |-> {"Culture", "Nature"}, location |-> "Kuching"],
   [id |-> "a3", categories |-> {"Nature"}, location |-> "Miri"],
   [id |-> "a4", categories |-> {}, location |-> "Kuching Waterfront"],
   [id |-> "a5", categories |-> {"Culture"}, location |-> None]}

EventPool ==
  {[id |-> "e1", category |-> "Festival", start_date |-> 1],
   [id |-> "e2", category |-> "Adventure", start_date |-> 2],
   [id |-> "e3", category |-> "Festival", start_date |-> 2],
   [id |-> "e4", category |-> "Festival", start_date |-> NoDate],
   [id |-> "e5", category |-> "Adventure", start_date |-> 3]}

AttractionCategoryInputs == {None, "Nature"}
LocationInputs == {None, "kuching"}
EventCategoryInputs == {None, "Festival"}
DateInputs == {NoBound, 1, 2}   \* NoBound: the parameter is not given
LimitInputs == 0..MaxLimit

\* the orders a cursor can deliver the documents of S in
RECURSIVE Orderings(_)
Orderings(S) ==
  IF S = {} THEN {<<>>}
  ELSE UNION {{<<x>> \o s : s \in Orderings(S \ {x})} : x \in S}

\* .sort('start_date', 1): ascending, a missing date before every date,
\* documents with equal dates in any order
SortedByStartDate(S) ==
  {s \in Orderings(S) :
     \A i, j \in DOMAIN s : i < j => s[i].start_date <= s[j].start_date}

\* .limit(limit).to_list(limit): the first documents, limit at most
Limited(s, limit) ==
  SubSeq(s, 1, IF limit < Len(s) THEN limit ELSE Len(s))

\* {'$regex': location, '$options': 'i'}: the pattern is found somewhere in
\* the value, letter case ignored
RegexSearch(pattern, value) ==
  <<pattern, value>> \in {<<"kuching", "Kuching">>,
                          <<"kuching", "Kuching Waterfront">>}

StoreOutcomes == [ping : BOOLEAN, attractions : BOOLEAN, events : BOOLEAN]

NoListResp ==
  [op |-> None, category |-> None, location |-> None, start_date |-> NoBound,
   end_date |-> NoBound, limit |-> 0, result |-> <<>>, status |-> 0,
   state |-> None, keys |-> {}, counts |-> [attractions |-> 0, events |-> 0],
   store |-> [ping |-> TRUE, attractions |-> TRUE, events |-> TRUE]]

AttractionMatchesLocationOnly(a, category, location) ==
  (location # None /\ location # "")
    => (a.location # None /\ RegexSearch(location, a.location))

\* lines 316-322: the filter of get_attractions
AttractionMatches(a, category, location) ==
  /\ (category # None /\ category # "") => category \in a.categories
  /\ (location # None /\ location # "")
       => (a.location # None /\ RegexSearch(location, a.location))

\* lines 309-325
get_attractions(category, location, limit) ==
  /\ \E s \in Orderings({a \in attractions :
                          AttractionMatches(a, category, location)}) :
       listResp' = [NoListResp EXCEPT
                      !.op = "attractions", !.status = 200,
                      !.category = category,
                      !.location = location, !.limit = limit,
                      !.result = Limited(s, limit)]
  /\ UNCHANGED <<now, attractions, events>>
  /\ UNCHANGED <<genVars, authVars, favVars>>

EventsQueryEndOnly(category, start_date, end_date) ==
  [category |-> IF category # None /\ category # "" THEN category ELSE None,
   gte |-> IF end_date # NoBound THEN NoBound ELSE start_date,
   lte |-> end_date]

\* lines 344-356: the query of get_events; gte / lte are the bounds put on
\* start_date, NoBound when the key is not set
EventsQuery(category, start_date, end_date) ==
  [category |-> IF category # None /\ category # "" THEN category ELSE None,
   gte |-> start_date,
   lte |-> end_date]

\* a comparison operator matches documents that have a date only
EventMatches(e, query) ==
  /\ query.category # None => e.category = query.category
  /\ query.gte # NoBound => (e.start_date # NoDate /\ e.start_date >= query.gte)
  /\ query.lte # NoBound => (e.start_date # NoDate /\ e.start_date <= query.lte)

\* lines 336-359
get_events(category, start_date, end_date, limit) ==
  /\ LET query == EventsQuery(category, start_date, end_date)
     IN  \E s \in SortedByStartDate({e \in events : EventMatches(e, query)}) :
           listResp' = [NoListResp EXCEPT
                          !.op = "events", !.status = 200,
                          !.category = category,
                          !.start_date = start_date, !.end_date = end_date,
                          !.limit = limit, !.result = Limited(s, limit)]
  /\ UNCHANGED <<now, attractions, events>>
  /\ UNCHANGED <<genVars, authVars, favVars>>

HealthFailureRaised ==
  [NoListResp EXCEPT !.op = "health", !.status = 500, !.keys = {"detail"}]

\* lines 472-476: the payload returned from the except branch
HealthFailure ==
  [NoListResp EXCEPT !.op = "health", !.status = 200, !.state = "unhealthy",
                     !.keys = {"status", "error"}]

\* lines 453-476; store says which of the three store operations succeed
\* when they are run
health_check(store) ==
  /\ listResp' =
       IF store.ping /\ store.attractions /\ store.events
         THEN [NoListResp EXCEPT
                 !.op = "health", !.status = 200, !.state = "healthy",
                 !.keys = {"status", "database", "collections"},
                 !.counts = [attractions |-> Cardinality(attractions),
                             events |-> Cardinality(events)],
                 !.store = store]
         ELSE [HealthFailure EXCEPT !.store = store]
  /\ UNCHANGED <<now, attractions, events>>
  /\ UNCHANGED <<genVars, authVars, favVars>>

\* the clock advances
ClockStep ==
  /\ now < MaxTime
  /\ now' = now + 1
  /\ limitResp' = NoLimitResp
  /\ genResp' = NoGenResp
  /\ UNCHANGED <<itineraries, gen, generated>>
  /\ UNCHANGED <<authVars, favVars, catalogVars>>

Tick ==
  /\ ClockStep
  /\ UNCHANGED <<peak, rejected>>

\* the clock advances with the histories kept: at midnight they start anew,
\* the requests still between check and insert counting for the new day
TickObserved ==
  /\ ClockStep
  /\ peak' = IF DayOf(now') # DayOf(now)
               THEN [u \in Identities |-> InFlightFor(gen, u)]
               ELSE peak
  /\ rejected' = IF DayOf(now') # DayOf(now) THEN {} ELSE rejected

\* An auth request is answered within the tick it arrived in (the broker call
\* times out after 10 s): the clock advances between requests.  Broker
\* exchanges happen in the ticks 0..Slack; the stretch after them in which
\* every session is unexpired is passed in one step, up to the tick before
\* the first session can expire.
AuthTick ==
  /\ \A c \in Clients : auth[c].pc = "idle"
  /\ now < AuthHorizon
  /\ now' = IF now = Slack THEN SessionTTL - 1 ELSE now + 1
  /\ limitResp' = NoLimitResp
  /\ genResp' = NoGenResp
  /\ authResp' = NoAuthResp
  /\ UNCHANGED <<itineraries, gen, generated, peak, rejected>>
  /\ UNCHANGED <<users, user_sessions, auth, exchanged>>
  /\ UNCHANGED <<favVars, request, catalogVars>>

----------------------------------------------------------------------------
(* Specifications *)

InitStore ==
  /\ now = 0
  /\ itineraries = EmptyBag
  /\ gen = [r \in GenReqs |-> IdleGen]
  /\ generated = EmptyBag
  /\ peak = [u \in Identities |-> 0]
  /\ rejected = {}
  /\ limitResp = NoLimitResp
  /\ genResp = NoGenResp
  /\ users = EmptyBag
  /\ user_sessions = EmptyBag
  /\ auth = [c \in Clients |-> IdleAuth]
  /\ authResp = NoAuthResp
  /\ exchanged = {}
  /\ favorites = EmptyBag
  /\ fav = [r \in FavReqs |-> IdleFav]
  /\ favIds = 0
  /\ favResp = NoFavResp
  /\ listResp = NoListResp

Init ==
  /\ InitStore
  /\ request = NoRequest
  /\ attractions = AttractionPool
  /\ events = EventPool

\* Quota behaviour: well-formed requests of two identities, served concurrently.
NextQuota ==
  \/ \E r \in GenReqs, u \in UserIdInputs :
       GenerateBegin(r, u, 3, "low", MaxItineraries)
  \/ \E r \in GenReqs : GenerateCount(r)
  \/ \E r \in GenReqs, ai_ok \in BOOLEAN, text \in AiTexts :
       GenerateComplete(r, ai_ok, text)
  \/ Tick

Spec == Init /\ [][NextQuota]_vars

\* Overlap and rejection histories: one slot serving the guest identity next
\* to a slot serving either identity, with peak and rejected kept.
NextOverlap ==
  \/ GenerateBegin("g1", None, 3, "low", MaxItineraries)
  \/ \E u \in UserIdInputs : GenerateBegin("g2", u, 3, "low", MaxItineraries)
  \/ \E r \in GenReqs : GenerateCountObserved(r)
  \/ \E r \in GenReqs, ai_ok \in BOOLEAN, text \in AiTexts :
       GenerateComplete(r, ai_ok, text)
  \/ TickObserved

SpecOverlap == Init /\ [][NextOverlap]_vars

\* The limit check next to concurrently served requests of one identity.
NextRace ==
  \/ \E r \in GenReqs : GenerateBegin(r, None, 3, "low", MaxItineraries)
  \/ \E r \in GenReqs : GenerateCount(r)
  \/ \E r \in GenReqs, ai_ok \in BOOLEAN, text \in AiTexts :
       GenerateComplete(r, ai_ok, text)
  \/ \E count_ok \in BOOLEAN : check_itinerary_limit("guest", count_ok)
  \/ Tick

SpecRace == Init /\ [][NextRace]_vars

\* The limit check next to generate requests served one at a time.
NextLimit ==
  \/ \E u \in UserIdInputs : GenerateBegin("g1", u, 3, "low", MaxItineraries)
  \/ GenerateCount("g1")
  \/ \E ai_ok \in BOOLEAN, text \in AiTexts : GenerateComplete("g1", ai_ok, text)
  \/ \E u \in Identities, count_ok \in BOOLEAN : check_itinerary_limit(u, count_ok)
  \/ Tick

SpecLimit == Init /\ [][NextLimit]_vars

\* Request bodies: every duration / budget input.
NextInput ==
  \/ \E r \in GenReqs, u \in UserIdInputs, d \in DurationInputs, b \in BudgetInputs :
       GenerateBegin(r, u, d, b, MaxInputDocs)
  \/ \E r \in GenReqs : GenerateCount(r)
  \/ \E r \in GenReqs, ai_ok \in BOOLEAN, text \in AiTexts :
       GenerateComplete(r, ai_ok, text)
  \/ Tick

SpecInput == Init /\ [][NextInput]_vars

\* Session authentication: concurrent create_session, get_me and logout
\* (the two clock readings of a session row taken in one clock unit).
NextAuth ==
  \/ \E c \in Clients, data \in UserData : CreateSessionCall(c, 200, data)
  \/ \E c \in Clients : CreateSessionCall(c, 403, NoUserData)
  \/ \E c \in Clients : CreateSessionFindUser(c)
  \/ \E c \in Clients : CreateSessionInsertUser(c)
  \/ \E c \in Clients : CreateSessionInsertSession(c, 0)
  \/ \E c \in Clients, ck \in CookieInputs, az \in AuthorizationInputs :
       GetMeCall(c, ck, az)
  \/ \E c \in Clients : GetMeEvict(c)
  \/ \E c \in Clients : GetMeUser(c)
  \/ \E c \in Clients, ck \in CookieInputs, az \in AuthorizationInputs :
       logout(c, ck, az)
  \/ AuthTick

SpecAuth == Init /\ [][NextAuth]_vars

\* Session rows: concurrent create_session calls with the clock running
\* between the two readings, and logout.
NextSession ==
  \/ \E c \in Clients, data \in UserData : CreateSessionCall(c, 200, data)
  \/ \E c \in Clients : CreateSessionFindUser(c)
  \/ \E c \in Clients : CreateSessionInsertUser(c)
  \/ \E c \in Clients, elapsed \in ClockElapsed :
       CreateSessionInsertSession(c, elapsed)
  \/ \E c \in Clients, ck \in CookieInputs : logout(c, ck, <<>>)
  \/ AuthTick

SpecSession == Init /\ [][NextSession]_vars

\* Failing exchanges: create_session calls of which a store operation may
\* raise or whose broker answer may lack the session_token; no session is
\* ever deleted here.
NextExchange ==
  \/ \E c \in Clients, data \in TokenData \cup NoTokenData :
       CreateSessionCall(c, 200, data)
  \/ \E c \in Clients : CreateSessionCall(c, 403, NoUserData)
  \/ \E c \in Clients : CreateSessionFindUser(c)
  \/ \E c \in Clients : CreateSessionInsertUser(c)
  \/ \E c \in Clients : CreateSessionInsertSession(c, 0)
  \/ \E c \in Clients, store_ok \in BOOLEAN : CreateSessionRaises(c, store_ok)

SpecExchange == Init /\ [][NextExchange]_vars

\* Token extraction: one caller presenting the same cookie and authorization
\* value with each get_me and logout, next to sessions being created.
InitToken ==
  /\ InitStore
  /\ request \in TokenRequests
  /\ attractions = AttractionPool
  /\ events = EventPool

NextToken ==
  \/ \E c \in Clients, data \in TokenData : CreateSessionCall(c, 200, data)
  \/ \E c \in Clients : CreateSessionFindUser(c)
  \/ \E c \in Clients : CreateSessionInsertUser(c)
  \/ \E c \in Clients : CreateSessionInsertSession(c, 0)
  \/ \E c \in Clients :
       GetMeCall(c, request.session_token, request.authorization)
  \/ \E c \in Clients : GetMeEvict(c)
  \/ \E c \in Clients : GetMeUser(c)
  \/ \E c \in Clients :
       logout(c, request.session_token, request.authorization)
  \/ AuthTick

SpecToken == InitToken /\ [][NextToken]_vars

\* Catalog queries over every collection the import may have left.
InitCatalog ==
  /\ InitStore
  /\ request = NoRequest
  /\ \/ attractions \in SUBSET AttractionPool /\ events = EventPool
     \/ attractions = AttractionPool /\ events \in SUBSET EventPool

NextCatalog ==
  \/ \E category \in AttractionCategoryInputs, location \in LocationInputs,
        limit \in LimitInputs : get_attractions(category, location, limit)
  \/ \E category \in EventCategoryInputs, start_date \in DateInputs,
        end_date \in DateInputs, limit \in LimitInputs :
       get_events(category, start_date, end_date, limit)
  \/ \E store \in StoreOutcomes : health_check(store)

SpecCatalog == InitCatalog /\ [][NextCatalog]_vars

\* Favorites: concurrent add_favorite requests and remove_favorite.
NextFav ==
  \/ \E r \in FavReqs, u \in FavUsers, a \in Attractions : AddFavoriteCall(r, u, a)
  \/ \E r \in FavReqs, micros \in Micros : AddFavoriteInsert(r, micros)
  \/ \E u \in FavUsers, a \in Attractions : remove_favorite(u, a)
  \/ \E u \in FavUsers : get_user_favorites(u)

SpecFav == Init /\ [][NextFav]_vars

----------------------------------------------------------------------------
(* Properties of the itinerary generator *)

\* successful generations of an identity completed on a UTC day
GeneratedOn(user, day) == CopiesIn([user |-> user, day |-> day], generated)

\* C1: a generate request whose identity already has DAILY_LIMIT (5) or more
\* itineraries persisted on the UTC day the request took as today answers
\* 429 at its quota check: it never reaches the AI call and persists nothing.
C1_SixthCallRateLimited ==
  [][\A r \in GenReqs :
        ( /\ gen[r].pc = "count"
          /\ gen'[r] # gen[r]
          /\ GeneratedOn(gen[r].user_identifier, DayOf(gen[r].today_start))
               >= DAILY_LIMIT )
        => ( /\ gen'[r].pc = "done"
             /\ gen'[r].status = 429
             /\ gen'[r].ai = None
             /\ itineraries' = itineraries )]_vars

\* a request was answered 429 with exactly 5 itineraries of one identity today
C1_Witness ==
  \E r \in GenReqs, u \in Identities :
    /\ gen[r].pc = "done" /\ gen[r].status = 429
    /\ GeneratedOn(u, DayOf(now)) = DAILY_LIMIT
    /\ BagCardinality(itineraries) = DAILY_LIMIT

\* C2: right after N <= 5 successful generations of an identity on the
\* current UTC day, a check_itinerary_limit whose count succeeds reports
\* used_today = N and remaining_today = 5 - N.
C2_LimitReportsUsage ==
  (limitResp.user_id # None /\ ~limitResp.error) =>
    LET N == GeneratedOn(limitResp.user_id, DayOf(now))
    IN  N <= DAILY_LIMIT =>
          /\ limitResp.used_today = N
          /\ limitResp.remaining_today = DAILY_LIMIT - N

\* the limit was read after 2 generations of today, with older ones in the store
C2_Witness ==
  /\ limitResp.user_id # None /\ ~limitResp.error
  /\ limitResp.used_today = 2
  /\ limitResp.remaining_today = 3
  /\ BagCardinality(itineraries) > 2
  /\ \E d \in BagToSet(itineraries) :
       d.user_id = limitResp.user_id /\ d.created_at < DayStart(now)

\* C6: every persisted itinerary has a duration in {1,3,5,7} and a budget in
\* {low, medium, high} (requests outside the domains are rejected).
C6_OnlyEnumeratedPersisted ==
  \A d \in BagToSet(itineraries) :
    d.duration \in ValidDurations /\ d.budget \in ValidBudgets

\* C7: when the AI call of a generate request fails, the request answers 500
\* and the itineraries collection, hence every identity's count of today, is
\* as before.
C7_AiFailurePersistsNothing ==
  [][\A r \in GenReqs :
        (gen[r].pc = "ai" /\ gen'[r].pc = "done" /\ gen'[r].ai = "failed")
        => ( /\ gen'[r].status = 500
             /\ itineraries' = itineraries
             /\ \A u \in Identities :
                  TodayCount(itineraries', u, DayStart(now)) =
                  TodayCount(itineraries, u, DayStart(now)) )]_vars

\* a request ended on a failed AI call while the identity had itineraries today
C7_Witness ==
  \E r \in GenReqs :
    /\ gen[r].pc = "done" /\ gen[r].ai = "failed" /\ gen[r].status = 500
    /\ \E u \in Identities :
         /\ TodayCount(itineraries, u, DayStart(now)) = 2
         /\ GeneratedOn(u, DayOf(now)) = 2

\* C8: the quota check and the insert are separate store operations: an
\* insert that takes an identity above 5 itineraries in one UTC day is always
\* made by a request whose own count is smaller than the store's count at the
\* insert (other requests inserted in between), and such an insert happens.
C8_OverQuotaOnlyByStaleCount ==
  [][\A r \in GenReqs :
        ( /\ gen[r].pc = "ai"
          /\ itineraries' # itineraries
          /\ gen'[r] # gen[r]
          /\ TodayCount(itineraries', gen[r].user_identifier, DayStart(now))
               > DAILY_LIMIT )
        => ( /\ gen[r].today_count < DAILY_LIMIT
             /\ gen[r].today_count <
                  TodayCount(itineraries, gen[r].user_identifier, DayStart(now)) )]_vars

\* more than 5 itineraries of one identity persisted within one UTC day
C8_Witness ==
  \E u \in Identities :
    /\ TodayCount(itineraries, u, DayStart(now)) > DAILY_LIMIT
    /\ GeneratedOn(u, DayOf(now)) > DAILY_LIMIT

----------------------------------------------------------------------------
(* Properties of session authentication *)

\* what get_current_user can return for a token in the current state: the
\* user_id of a matching session that is not expired, None for an expired one
ResolveResults(token) ==
  {IF SessionExpired(d.expires_at, now) THEN None ELSE d.user_id :
     d \in SessionsOf(user_sessions, token)}

\* C3: a session resolves to its user only strictly before its expires_at
\* (creation + 7 days) and is treated as expired at exactly expires_at and later.
C3_ExpiredAtSevenDays ==
  \A c \in Clients :
    /\ auth[c].pc = "rs_user" => now < auth[c].expires_at
    /\ auth[c].pc = "rs_evict" => auth[c].expires_at <= now

\* C4: once a get_me with an expired token has been answered, no Session
\* document with that token is left in the store.
C4_EvictionRemovesToken ==
  (authResp.op = "get_me" /\ authResp.cause = "expired")
    => SessionsOf(user_sessions, authResp.token) = {}

\* C5: a create_session whose broker exchange answered a non-200 status is
\* answered 401.
C5_BrokerRefusalIsUnauthorized ==
  (authResp.op = "create_session" /\ authResp.cause = "broker_non200")
    => authResp.status = 401

\* C9: every Session document that is unexpired refers to a user_id with
\* exactly one User document, and resolving its token yields that user.
C9_UnexpiredSessionResolvesToItsUser ==
  \A d \in BagToSet(user_sessions) :
    d.expires_at > now =>
      /\ \E u \in UsersById(users, d.user_id) :
           UsersById(users, d.user_id) = {u} /\ CopiesIn(u, users) = 1
      /\ ResolveResults(d.session_token) = {d.user_id}

\* C10: right after logout(token) has been answered, resolving the token
\* yields no user.
C10_LogoutInvalidatesToken ==
  (authResp.op = "logout" /\ ~NoToken(authResp.token))
    => ResolveResults(authResp.token) \subseteq {None}

\* C11: logout is idempotent: a logout with no token, with a token that has
\* no session row, or with the token of the logout that was served just
\* before it, answers 200 and leaves user_sessions and users as they were.
C11_LogoutIdempotent ==
  [][authResp'.op = "logout" =>
       /\ authResp'.status = 200
       /\ users' = users
       /\ ( \/ NoToken(authResp'.token)
            \/ SessionsOf(user_sessions, authResp'.token) = {}
            \/ (authResp.op = "logout" /\ authResp.token = authResp'.token) )
          => user_sessions' = user_sessions]_vars

----------------------------------------------------------------------------
(* Properties of favorites *)

\* number of favorites documents of a (user_id, attraction_id) pair
FavoriteRows(coll, user_id, attraction_id) ==
  CountDocuments(coll, FavoritesOf(coll, user_id, attraction_id))

\* C12: an add_favorite served right after an add_favorite of the same
\* (user_id, attraction_id), the pair having one row, leaves one row for the
\* pair and returns the record the first call returned (same id, user_id,
\* attraction_id and created_at).
C12_AddFavoriteTwiceSameRecord ==
  [][( /\ favResp.op = "add" /\ favResp'.op = "add"
       /\ favResp'.user_id = favResp.user_id
       /\ favResp'.attraction_id = favResp.attraction_id
       /\ fav' = fav
       /\ FavoriteRows(favorites, favResp.user_id, favResp.attraction_id) = 1 )
     => ( /\ FavoriteRows(favorites', favResp.user_id, favResp.attraction_id) = 1
          /\ favResp'.body = favResp.body )]_vars

\* C13: remove_favorite of a pair with no row answers 404 and leaves
\* favorites unchanged; with a row it answers 200, deletes exactly one row of
\* the pair and no row of any other pair.
C13_RemoveFavorite ==
  [][favResp'.op = "remove" =>
       LET u == favResp'.user_id
           a == favResp'.attraction_id
           n == FavoriteRows(favorites, u, a)
       IN  IF n = 0
           THEN /\ favResp'.status = 404
                /\ favorites' = favorites
           ELSE /\ favResp'.status = 200
                /\ FavoriteRows(favorites', u, a) = n - 1
                /\ \A d \in BagToSet(favorites) \cup BagToSet(favorites') :
                     (d.user_id # u \/ d.attraction_id # a)
                       => CopiesIn(d, favorites') = CopiesIn(d, favorites)]_vars

\* a pair that had two rows was removed once: one of its rows is left, next
\* to a row of another pair
C13_Witness ==
  /\ favResp.op = "remove" /\ favResp.status = 200
  /\ FavoriteRows(favorites, favResp.user_id, favResp.attraction_id) = 1
  /\ \E d \in BagToSet(favorites) :
       d.user_id # favResp.user_id \/ d.attraction_id # favResp.attraction_id

----------------------------------------------------------------------------
(* Properties of the limit check and the quota window *)

\* C14: check_itinerary_limit is a pure read: every call returns a result
\* with remaining_today and leaves every collection unchanged, and for an
\* identity with no itinerary generated today (none at all included) it
\* reports remaining_today = 5.
C14_CheckLimitPureRead ==
  [][limitResp'.user_id # None =>
       /\ "remaining_today" \in limitResp'.keys
       /\ itineraries' = itineraries
       /\ users' = users /\ user_sessions' = user_sessions
       /\ favorites' = favorites
       /\ GeneratedOn(limitResp'.user_id, DayOf(now)) = 0
            => limitResp'.remaining_today = DAILY_LIMIT]_vars

\* the limit of an identity with no itinerary at all was read, the other
\* identity having itineraries
C14_Witness ==
  /\ limitResp.user_id # None
  /\ limitResp.remaining_today = DAILY_LIMIT
  /\ itineraries # EmptyBag
  /\ \A d \in BagToSet(itineraries) : d.user_id # limitResp.user_id

\* C15: every check_itinerary_limit response, the one returned when the
\* count fails included, has daily_limit = 5, used_today, remaining_today
\* and reset_time = 00:00 UTC of the day after the current UTC day.
C15_LimitResponseShape ==
  limitResp.user_id # None =>
    /\ {"daily_limit", "used_today", "remaining_today", "reset_time"}
         \subseteq limitResp.keys
    /\ limitResp.daily_limit = DAILY_LIMIT
    /\ limitResp.reset_time = DayStart(now) + DayLen

\* C17: the 429 of a generate request at the quota carries a retry-after
\* equal to the next UTC midnight.
C17_RateLimitHasRetryAfter ==
  [][\A r \in GenReqs :
        (gen[r].pc = "count" /\ gen'[r].status = 429)
        => ( /\ "retry_after" \in gen'[r].error_keys
             /\ gen'[r].retry_after = gen[r].today_start + DayLen )]_vars

\* successful generations of an identity completed on a UTC day or after it
GeneratedSince(user, day) ==
  CountDocuments(generated,
    {g \in BagToSet(generated) : g.user = user /\ g.day >= day})

\* C16: the quota window is the UTC calendar day: a generate request and a
\* limit check count the identity's itineraries generated since 00:00 UTC of
\* the day they took as today and none made before it, so 5 itineraries of
\* day D leave the identity at a count of 0 and allowed to generate on D+1.
C16_QuotaWindowIsUtcDay ==
  [][ /\ \A r \in GenReqs :
           (gen[r].pc = "count" /\ gen'[r] # gen[r])
           => LET n == GeneratedSince(gen[r].user_identifier,
                                      DayOf(gen[r].today_start))
              IN  IF n >= DAILY_LIMIT
                  THEN gen'[r].status = 429
                  ELSE gen'[r].pc = "ai" /\ gen'[r].today_count = n
      /\ (limitResp'.user_id # None /\ ~limitResp'.error)
           => limitResp'.used_today =
                GeneratedSince(limitResp'.user_id, DayOf(now)) ]_vars

\* a request passed the quota check with a count of 0 on the day after its
\* identity generated 5 itineraries
C16_Witness ==
  \E r \in GenReqs :
    /\ gen[r].pc = "ai" /\ gen[r].today_count = 0
    /\ DayOf(now) > 0
    /\ GeneratedOn(gen[r].user_identifier, DayOf(now) - 1) = DAILY_LIMIT

----------------------------------------------------------------------------
(* Properties of users and session rows *)

\* C18: users are never deleted or changed; a create_session whose lookup
\* finds a user row for the broker's email inserts no user row and takes that
\* row's user_id, which is the user_id of the session row it inserts and the
\* id it returns, whatever name and picture the broker sent.
C18_ExistingUserKept ==
  [][ /\ \A d \in BagToSet(users) : CopiesIn(d, users') >= CopiesIn(d, users)
      /\ \A c \in Clients :
           LET rows == {d \in BagToSet(users) : d.email = auth[c].user_data.email}
           IN  (auth[c].pc = "cs_find" /\ auth'[c] # auth[c] /\ rows # {})
               => ( /\ users' = users
                    /\ auth'[c].pc = "cs_session"
                    /\ \E u \in rows : auth'[c].user_id = u.user_id )
      /\ \A c \in Clients :
           (auth[c].pc = "cs_session" /\ auth'[c] # auth[c])
           => ( /\ users' = users
                /\ authResp'.body.id = auth[c].user_id
                /\ \E d \in BagToSet(user_sessions') :
                     /\ d.user_id = auth[c].user_id
                     /\ d.session_token = auth[c].user_data.session_token
                     /\ CopiesIn(d, user_sessions')
                          = CopiesIn(d, user_sessions) + 1 ) ]_vars

\* a create_session was answered with the id of the one user row of its
\* email, a row that keeps a name other than the one the broker sent
C18_Witness ==
  /\ authResp.op = "create_session" /\ authResp.cause = "created"
  /\ \E u \in BagToSet(users) :
       /\ {d \in BagToSet(users) : d.email = authResp.body.email} = {u}
       /\ u.user_id = authResp.body.id
       /\ u.name # authResp.body.name
       /\ u.picture # authResp.body.picture

\* C19: email is a unique key of users: at most one user row per email.
C19_EmailUnique ==
  \A e \in Emails :
    CountDocuments(users, {d \in BagToSet(users) : d.email = e}) <= 1

\* C20: the session row a create_session inserts carries the broker's
\* session_token, the value returned in the body and set as the cookie, and
\* an expires_at exactly 7 days after the row's created_at.
C20_SessionRowAsIssued ==
  [][\A c \in Clients :
        (auth[c].pc = "cs_session" /\ auth'[c] # auth[c])
        => \E d \in BagToSet(user_sessions') :
             /\ CopiesIn(d, user_sessions') = CopiesIn(d, user_sessions) + 1
             /\ d.session_token = auth[c].user_data.session_token
             /\ authResp'.body.session_token = d.session_token
             /\ authResp'.token = d.session_token
             /\ d.expires_at = d.created_at + SessionTTL]_vars

----------------------------------------------------------------------------
(* Properties of requests that present a token *)

\* the token a request presents, as the contract has it: the cookie when
\* there is one, else t of an authorization value 'Bearer <t>', else none
PresentedToken(rq) ==
  IF rq.session_token # None
  THEN rq.session_token
  ELSE IF Len(rq.authorization) > 0 /\ Head(rq.authorization) = "Bearer "
       THEN Joined(Tail(rq.authorization))
       ELSE None

\* C21: get_me and logout use the cookie's value when there is a cookie, t
\* of 'Bearer <t>' when there is none, and no token otherwise; without a
\* token get_me answers 401 from the branch that precedes the store lookup
\* and neither handler changes the store.
C21_TokenExtraction ==
  [][LET t == PresentedToken(request)
     IN  /\ (authResp'.op \in {"get_me", "logout"} /\ auth' = auth)
              => authResp'.token = t
         /\ \A c \in Clients :
              (auth[c].pc = "idle" /\ auth'[c].pc \in {"rs_evict", "rs_user"})
              => auth'[c].token = t
         /\ (NoToken(t) /\ authResp'.op = "get_me" /\ auth' = auth)
              => ( /\ authResp'.cause = "no_token" /\ authResp'.status = 401
                   /\ user_sessions' = user_sessions /\ users' = users )
         /\ (NoToken(t) /\ authResp'.op = "logout")
              => (user_sessions' = user_sessions /\ users' = users)]_vars

\* C22: the answer of get_me to a missing token, to a token unknown to the
\* store and to an expired token is one and the same: 401 with the detail
\* "Not authenticated".
C22_UnauthenticatedIndistinguishable ==
  (authResp.op = "get_me"
     /\ authResp.cause \in {"no_token", "no_session", "expired"})
  => (authResp.status = 401 /\ authResp.body = Unauthorized)

\* get_me was answered for a token whose session had expired
C22_Witness ==
  /\ authResp.op = "get_me" /\ authResp.cause = "expired"
  /\ ~NoToken(authResp.token)
  /\ authResp.status = 401

----------------------------------------------------------------------------
(* Properties of the itineraries collection *)

\* C23: a generate request made without an authenticated session is
\* accounted to the guest identity: while no session exists at all, every
\* request being served counts for guest and every persisted itinerary
\* carries guest.
C23_UnauthenticatedIsGuest ==
  user_sessions = EmptyBag =>
    /\ \A r \in GenReqs :
         gen[r].pc \in {"count", "ai"} => gen[r].user_identifier = "guest"
    /\ \A d \in BagToSet(itineraries) : d.user_id = "guest"

ResolvesTo(coll, token, t) ==
  {IF d.expires_at < t THEN None ELSE d.user_id :
     d \in {e \in BagToSet(coll) : e.session_token = token}}

\* C25: sessions of a user live side by side: no step removes a session row
\* other than a logout or an eviction, which removes one row, of the token it
\* was called with; create_session removes none.  Every other token resolves
\* after the step as it did before.
C25_SessionsIndependent ==
  [][\A d \in BagToSet(user_sessions) :
        /\ CopiesIn(d, user_sessions') < CopiesIn(d, user_sessions)
             => ( /\ authResp'.op \in {"logout", "get_me"}
                  /\ authResp'.token = d.session_token
                  /\ BagCardinality(user_sessions')
                       = BagCardinality(user_sessions) - 1 )
        /\ (user_sessions' # user_sessions /\ now' = now
              /\ authResp'.token # d.session_token)
             => ResolvesTo(user_sessions', d.session_token, now)
                  = ResolvesTo(user_sessions, d.session_token, now)]_vars

\* both clients created a session of the one user, the token of one of them
\* was logged out, and the other token is left, unexpired
C25_Witness ==
  /\ authResp.op = "logout" /\ ~NoToken(authResp.token)
  /\ exchanged = Clients
  /\ BagCardinality(users) = 1
  /\ BagCardinality(user_sessions) = 1
  /\ \E d \in BagToSet(user_sessions) :
       /\ d.session_token # authResp.token
       /\ d.expires_at > now
       /\ ResolvesTo(user_sessions, d.session_token, now) = {d.user_id}

----------------------------------------------------------------------------
\* the events that a query with the given parameters is to return: of the
\* category when one is given, and with a start_date within each given bound
EventsWithin(category, start_date, end_date) ==
  {e \in events :
     /\ category # None => e.category = category
     /\ start_date # NoBound => (e.start_date # NoDate /\ start_date <= e.start_date)
     /\ end_date # NoBound => (e.start_date # NoDate /\ e.start_date <= end_date)}

C27_AttractionsFiltered ==
  listResp.op = "attractions" =>
    LET result == listResp.result
        allowed == {a \in attractions :
                      /\ listResp.category # None
                           => listResp.category \in a.categories
                      /\ listResp.location # None
                           => (a.location # None
                               /\ RegexSearch(listResp.location, a.location))}
    IN  /\ listResp.status = 200
        /\ \A i \in DOMAIN result : result[i] \in allowed
        /\ \A i, j \in DOMAIN result : i # j => result[i] # result[j]
        /\ Len(result) <= listResp.limit
        /\ Len(result) = IF listResp.limit < Cardinality(allowed)
                           THEN listResp.limit ELSE Cardinality(allowed)

C27_Witness ==
  /\ listResp.op = "attractions"
  /\ listResp.category = "Nature" /\ listResp.location = None
  /\ Len(listResp.result) = 2
  /\ \E a \in attractions : "Nature" \notin a.categories

\* C29: the health check always answers with a payload and never with an
\* error: status healthy with the row counts of attractions and events when
\* the ping and both counts succeed, status unhealthy when one of them fails.
C29_HealthNeverRaises ==
  listResp.op = "health" =>
    /\ listResp.status = 200
    /\ (listResp.store.ping /\ listResp.store.attractions /\ listResp.store.events)
         => /\ listResp.state = "healthy"
            /\ listResp.counts = [attractions |-> Cardinality(attractions),
                                  events |-> Cardinality(events)]
    /\ ~(listResp.store.ping /\ listResp.store.attractions /\ listResp.store.events)
         => (listResp.state = "unhealthy" /\ "error" \in listResp.keys)

C29_Witness ==
  /\ listResp.op = "health"
  /\ listResp.state = "unhealthy"
  /\ listResp.store.ping /\ ~listResp.store.events
  /\ attractions # {}

\* C28: the attraction ids that get_user_favorites returns for a user are
\* exactly the attraction_id values of that user's favorites, after any
\* sequence of add and remove calls.
C28_ListedAreTheFavorites ==
  favResp.op = "list" =>
    {a.id : a \in favResp.listed}
      = {d.attraction_id : d \in {f \in BagToSet(favorites) :
                                    f.user_id = favResp.user_id}}

\* C30: session_token is unique among the rows of user_sessions: after any
\* sequence of create_session calls, repeated exchanges answered with the
\* same session_token included, at most one row exists per session_token.
C30_SessionTokenUnique ==
  \A d1, d2 \in BagToSet(user_sessions) :
    d1.session_token = d2.session_token
      => (d1 = d2 /\ CopiesIn(d1, user_sessions) = 1)

\* C31: a user_sessions row is never modified after its creation: a step
\* that changes the collection inserts one new row or deletes one row and
\* leaves every other row as it was, and a get_me that resolves the session
\* (both of its reads) changes no collection, so expires_at is never extended.
C31_SessionRowsImmutable ==
  [][/\ user_sessions' # user_sessions =>
          \/ \E c \in Clients :
               /\ auth[c].pc = "cs_session"
               /\ \E d \in BagToSet(user_sessions') :
                    /\ d.session_token = auth[c].user_data.session_token
                    /\ user_sessions' = user_sessions (+) SetToBag({d})
          \/ \E d \in BagToSet(user_sessions) :
               user_sessions' = user_sessions (-) SetToBag({d})
     /\ ( \/ authResp'.op = "get_me" /\ authResp'.status = 200
          \/ \E c \in Clients : auth[c].pc = "idle" /\ auth'[c].pc = "rs_user" )
          => /\ user_sessions' = user_sessions
             /\ users' = users
             /\ itineraries' = itineraries
             /\ favorites' = favorites]_vars

C31_Witness ==
  /\ authResp.op = "get_me" /\ authResp.status = 200
  /\ \E d \in BagToSet(user_sessions) :
       /\ d.session_token = authResp.token
       /\ d.created_at < now
       /\ d.expires_at = d.created_at + SessionTTL

\* C32: the itineraries persisted for one identity within the current UTC
\* day number at most 4 plus the largest number of generate requests of that
\* identity that were between quota check and insert at the same moment of
\* that day; an identity whose requests never overlapped has at most 5.
C32_PersistedBoundedByOverlap ==
  \A u \in Identities :
    /\ TodayCount(itineraries, u, DayStart(now)) <= DAILY_LIMIT - 1 + peak[u]
    /\ peak[u] <= 1 => TodayCount(itineraries, u, DayStart(now)) <= DAILY_LIMIT

C32_Witness ==
  /\ peak["guest"] = 2
  /\ TodayCount(itineraries, "guest", DayStart(now)) = DAILY_LIMIT + 1
  /\ now > 0

\* the documents of an identity created on the UTC day of tick t
UsedOnDay(coll, u, t) ==
  BagCardinality([d \in {e \in BagToSet(coll) :
                           e.user_id = u /\ DayOf(e.created_at) = DayOf(t)}
                    |-> coll[d]])

C34_LimitAgreesWithGenerate ==
  [][\A r \in GenReqs :
       ( /\ limitResp.user_id # None /\ ~limitResp.error
         /\ gen[r].pc = "count" /\ gen'[r].pc # "count"
         /\ gen[r].user_identifier = limitResp.user_id
         /\ gen[r].today_start = DayStart(now)
         /\ itineraries' = itineraries /\ now' = now )
       => /\ limitResp.remaining_today > 0 <=> gen'[r].pc = "ai"
          /\ limitResp.remaining_today = 0
               <=> (gen'[r].pc = "done" /\ gen'[r].status = 429)]_vars

C34_Witness ==
  /\ limitResp.user_id = "u1" /\ ~limitResp.error
  /\ limitResp.remaining_today = 0 /\ limitResp.used_today = DAILY_LIMIT
  /\ gen["g1"].pc = "count" /\ gen["g1"].user_identifier = "u1"
  /\ gen["g1"].today_start = DayStart(now)

\* the documents of identity u created at or after tick t
UsedSince(coll, u, t) ==
  BagCardinality([d \in {e \in BagToSet(coll) :
                           e.user_id = u /\ e.created_at >= t}
                    |-> coll[d]])

\* C35: the quotas of different identities are independent: a step of a
\* generate request of identity A leaves the number of today's itineraries of
\* every other identity B unchanged, and the quota check of a request of B
\* is decided by B's own itineraries since midnight alone, whatever A has
\* generated.
C35_QuotasIndependent ==
  [][\A r \in GenReqs :
       gen'[r] # gen[r] =>
         LET A == IF gen[r].pc \in {"count", "ai"}
                  THEN gen[r].user_identifier ELSE gen'[r].user_identifier
         IN  /\ \A B \in Identities \ {A} :
                  UsedSince(itineraries', B, DayStart(now))
                    = UsedSince(itineraries, B, DayStart(now))
             /\ gen[r].pc = "count" =>
                  /\ gen'[r].pc = "ai"
                       <=> UsedSince(itineraries, A, gen[r].today_start)
                             < DAILY_LIMIT
                  /\ (gen'[r].pc = "done" /\ gen'[r].status = 429)
                       <=> UsedSince(itineraries, A, gen[r].today_start)
                             >= DAILY_LIMIT]_vars

C35_Witness ==
  /\ UsedSince(itineraries, "guest", DayStart(now)) = DAILY_LIMIT
  /\ UsedSince(itineraries, "u1", DayStart(now)) = 0
  /\ \E r \in GenReqs : gen[r].pc = "ai" /\ gen[r].user_identifier = "u1"
  /\ now > 0

\* C36: check_itinerary_limit never reports a negative remainder: in every
\* response, one given after a race has persisted more than 5 itineraries of
\* the identity today included, remaining_today = max(0, 5 - used_today) and
\* 0 <= remaining_today <= 5; used_today of a count that succeeded is the
\* number of today's itineraries of the identity.
C36_RemainingNeverNegative ==
  limitResp.user_id # None =>
    /\ limitResp.remaining_today
         = (IF DAILY_LIMIT - limitResp.used_today > 0
            THEN DAILY_LIMIT - limitResp.used_today ELSE 0)
    /\ 0 <= limitResp.remaining_today
    /\ limitResp.remaining_today <= DAILY_LIMIT
    /\ ~limitResp.error
         => limitResp.used_today
              = UsedSince(itineraries, limitResp.user_id, DayStart(now))

C36_Witness ==
  /\ limitResp.user_id = "guest" /\ ~limitResp.error
  /\ limitResp.used_today = DAILY_LIMIT + 1
  /\ limitResp.remaining_today = 0

\* C37: in every reachable state, under every interleaving of concurrent
\* add_favorite calls for the same (user_id, attraction_id), at most one
\* favorites row exists per (user_id, attraction_id) pair.
C37_OneFavoritePerPair ==
  \A u \in FavUsers, a \in Attractions : FavoriteRows(favorites, u, a) <= 1

\* C38: a create_session call that fails leaves no users row behind without
\* the session the call was to create: where no session is ever deleted,
\* every users row has a user_sessions row of its user_id, or the call that
\* is about to insert that session is still running.
C38_FailedExchangeLeavesNothing ==
  \A u \in BagToSet(users) :
    \/ \E d \in BagToSet(user_sessions) : d.user_id = u.user_id
    \/ \E c \in Clients :
         auth[c].pc = "cs_session" /\ auth[c].user_id = u.user_id

====
